---------------------------- MODULE Spec2Model ----------------------------
(***************************************************************************)
(* Model of the map drawing tool: the MapDrawingTool component (scene and  *)
(* edit panel, src/components/map-drawing-tool.tsx) and the DrawingCanvas  *)
(* component (viewport, hit-testing and the pointer state machine,         *)
(* src/components/drawing-canvas.tsx).                                     *)
(*                                                                         *)
(* Every React event handler is one action: it reads the state of the      *)
(* last render (the unprimed variables) and its setState calls are the     *)
(* primed variables.                                                       *)
(*                                                                         *)
(* Number representation.  Image-space coordinates are integers.  Screen   *)
(* coordinates are integers in units of 1/SUB of a CSS pixel, so that the  *)
(* image origin (canvas - image*zoom)/2 + pan is exact for every zoom      *)
(* level; panOffset is stored in the same units.  zoomLevel is stored in   *)
(* tenths (10 = 1.0).  A line's opacity is the double nearest n / 100 for  *)
(* a whole n and is stored as n; the panel's opacity is a double stored as *)
(* the whole number nearest to it and its distance from that number in     *)
(* units in the last place.  Pointer positions are drawn from              *)
(* Pointers and restricted to those whose image-space conversion is an     *)
(* integer (Representable), so the quotient in getImageCoordinates is the  *)
(* exact one.  The specification SpecTransform alone keeps the viewport as *)
(* the doubles the browser computes, to check the conversion between image *)
(* and screen coordinates with its rounding.                               *)
(*                                                                         *)
(* State read by nothing but the renderer or never read at all             *)
(* (cursorPosition, rotationStartAngle, isRotatingLabel, editingLabel,     *)
(* the cursor style) is left out.                                          *)
(***************************************************************************)
EXTENDS Integers, Sequences, FiniteSets, TLC

\* ------------------------------------------------------------- bounds
MaxLines == 2       \* committed lines kept at once
MaxPts == 2         \* points of an in-progress line
MaxStrokePts == 3   \* points of an in-progress line, stroke specification
MaxClock == 2       \* last value of Date.now() the model reaches
MaxPan == 0          \* |panOffset.x|, |panOffset.y| in CSS pixels
MaxDrag == 16        \* the same, in the specification of the pan gesture
MaxNotches == 1      \* presses of the zoom-in button above the default zoom
MaxLabelScene == 1  \* lines in the scene of the label specification
MaxWheelShift == 40 \* |panOffset.x|, |panOffset.y| in sub-units, view specification

\* ---------------------------------------------------------- constants
SUB == 20                 \* screen sub-units per CSS pixel
ContainerW == 80          \* container.clientWidth
ContainerH == 80          \* container.clientHeight
NaturalW == 40            \* img.width of the background image
NaturalH == 30            \* img.height of the background image
LabelOffset == 15         \* default label offset above the midpoint
Padding == 4              \* label box padding
TextHeight == 14          \* approximate text height
IconSize == 16            \* rotation handle diameter
CharWidth == 10           \* measureText(label).width of a one-letter label
SnapStep == 5             \* rotation snap increment in degrees
DefaultThickness == 3     \* useState<LineThickness>(3)
DefaultOpacity == 100     \* useState(100)
DefaultZoom == 10         \* useState(1), in tenths

Null == -1                \* hoveredLabel = null

Pt(px, py) == [x |-> px, y |-> py]

Min(a, b) == IF a <= b THEN a ELSE b

Abs(a) == IF a < 0 THEN -a ELSE a

\* ------------------------------------------------------------- opacity

\* The panel's opacity when it is the whole number n.
Percent(n) == [whole |-> n, ulp |-> 0]

\* The n in 0..100 for which the double product (n / 100) * 100 is one unit
\* in the last place above n, and those for which it is one below.
RoundsUp == {7, 14, 28, 55, 56}

RoundsDown == {29, 57, 58}

\* line.opacity * 100 of handleSelectLine, for line.opacity the double
\* nearest n / 100.
TimesHundred(n) ==
    [whole |-> n,
     ulp |-> IF n \in RoundsUp THEN 1 ELSE IF n \in RoundsDown THEN -1 ELSE 0]

\* opacity / 100 of handleStartDrawing and handleUpdateSelectedLine: a
\* panel value within one unit in the last place of n divides to the
\* double nearest n / 100.
OverHundred(o) == o.whole

\* Pointer positions offered to the handlers, in CSS pixels relative to the
\* canvas: three inside the fitted image, one in the letterbox above it.
Pointers == {Pt(40, 50), Pt(40, 20), Pt(56, 20), Pt(8, 4)}

Labels == {"", "A"}

\* DEFAULT_MAP_IMAGE, and the images a user may upload.
DefaultImage == "default"

Uploads == {"upload1", "upload2"}

VARIABLES
    \* MapDrawingTool
    lines, currentLine, isDrawing, selectedLine,
    color, opacity, label, labelRotation, thickness,
    zoomLevel, panOffset,
    \* DrawingCanvas
    canvasSize, imageSize, scale,
    isPanning, lastPanPoint, hoveredLabel, isDraggingLabel,
    rotationCenter, interactionMode, imageLoaded,
    \* the background image and its loading
    backgroundImage,  \* <<>> for null, or <<image>>
    isLoading,        \* MapDrawingTool shows its own spinner
    reading,          \* results of FileReaders that have not reported yet
    effectPending,    \* the image-load effect of DrawingCanvas is scheduled
    decoding,         \* the Image objects that have not reported yet, each
                      \* with its src and the handler that is its onload
    \* environment and history
    now,        \* the latest reading of Date.now()
    pressed     \* the branch the latest pointer-down took; "none" once the
                \* pointer is released

toolVars == <<lines, currentLine, isDrawing, selectedLine, color, opacity,
              label, labelRotation, thickness, zoomLevel, panOffset>>

canvasVars == <<canvasSize, imageSize, scale, isPanning, lastPanPoint,
                hoveredLabel, isDraggingLabel, rotationCenter,
                interactionMode, imageLoaded>>

loadVars == <<backgroundImage, isLoading, reading, effectPending, decoding>>

vars == <<toolVars, canvasVars, loadVars, now, pressed>>

\* ------------------------------------------------ viewport transform

\* Units of screen space per unit of image space: effectiveScale * SUB,
\* with effectiveScale = scale * zoomLevel / 10.
UnitScale == (scale * zoomLevel * SUB) \div 10

\* imageX / imageY of getImageCoordinates, isPointNearLabel,
\* isPointNearRotationControl and handleMouseDown, in screen sub-units.
ImageX == ((canvasSize.width * 10 - imageSize.width * zoomLevel) * SUB) \div 20
          + panOffset.x

ImageY == ((canvasSize.height * 10 - imageSize.height * zoomLevel) * SUB) \div 20
          + panOffset.y

\* Width and height of the rendered image, in screen sub-units.
ShownW == (imageSize.width * zoomLevel * SUB) \div 10

ShownH == (imageSize.height * zoomLevel * SUB) \div 10

\* A pointer position in CSS pixels as a screen point in sub-units.
Screen(p) == Pt(p.x * SUB, p.y * SUB)

InsideImage(c) ==
    /\ c.x >= ImageX
    /\ c.x <= ImageX + ShownW
    /\ c.y >= ImageY
    /\ c.y <= ImageY + ShownH

\* The pointer positions whose image coordinates are integers.
Representable(c) ==
    InsideImage(c) =>
        /\ (c.x - ImageX) % UnitScale = 0
        /\ (c.y - ImageY) % UnitScale = 0

getImageCoordinates(c) ==
    IF InsideImage(c)
    THEN Pt((c.x - ImageX) \div UnitScale, (c.y - ImageY) \div UnitScale)
    ELSE Pt(0, 0)

\* ------------------------------------------------------------ renderer

\* img.width and img.height as drawCanvas reads them from the Image it has
\* just constructed and given its src: the natural size when the image is
\* available at once, 0 when it is not.
FreshImageSizes ==
    {[width |-> 0, height |-> 0], [width |-> NaturalW, height |-> NaturalH]}

\* effectiveScale of drawCanvas, in screen sub-units per image unit.
DrawScale == (scale * zoomLevel * SUB) \div 10

\* x and y of drawCanvas, the origin handed to drawImage and drawLine, for
\* the fresh Image img.
DrawX(img) ==
    ((canvasSize.width * 10 - img.width * scale * zoomLevel) * SUB) \div 20
    + panOffset.x

DrawY(img) ==
    ((canvasSize.height * 10 - img.height * scale * zoomLevel) * SUB) \div 20
    + panOffset.y

\* ------------------------------------------------------ label geometry

\* ctx.measureText(line.label).width in CSS pixels for the 14px font.
TextWidth(l) == IF l = "" THEN 0 ELSE CharWidth

\* points[Math.floor(points.length / 2)]
MidPoint(points) == points[(Len(points) \div 2) + 1]

\* labelX / labelY: the label's anchor in screen space.
LabelAnchor(line) ==
    IF line.labelPosition # <<>>
    THEN Pt(ImageX + line.labelPosition[1].x * UnitScale,
            ImageY + line.labelPosition[1].y * UnitScale)
    ELSE Pt(ImageX + MidPoint(line.points).x * UnitScale,
            ImageY + MidPoint(line.points).y * UnitScale - LabelOffset * SUB)

isPointNearLabel(c, line) ==
    /\ line.label # ""
    /\ LET a == LabelAnchor(line)
           rx == a.x - (TextWidth(line.label) * SUB) \div 2 - Padding * SUB
           ry == a.y - (TextHeight * SUB) \div 2 - Padding * SUB
           rw == TextWidth(line.label) * SUB + Padding * SUB * 2
           rh == TextHeight * SUB + Padding * SUB * 2
       IN  /\ c.x >= rx
           /\ c.x <= rx + rw
           /\ c.y >= ry
           /\ c.y <= ry + rh

isPointNearRotationControl(c, line) ==
    /\ line.label # ""
    /\ LET a == LabelAnchor(line)
           iconX == a.x + (TextWidth(line.label) * SUB) \div 2 + Padding * SUB
                    + (IconSize * SUB) \div 2
           iconY == a.y
           dx == c.x - iconX
           dy == c.y - iconY
           r == (IconSize * SUB) \div 2
       IN  dx * dx + dy * dy <= r * r

\* ---------------------------------------------------- stroke hit-test

\* Variant of distanceToLineSegment: the projection is not clamped to the
\* segment.
distanceToLine(point, lineStart, lineEnd) ==
    LET A == point.x - lineStart.x
        B == point.y - lineStart.y
        C == lineEnd.x - lineStart.x
        D == lineEnd.y - lineStart.y
        lenSq == C * C + D * D
    IN  IF lenSq = 0
        THEN <<A * A + B * B, 1>>
        ELSE <<(A * D - B * C) * (A * D - B * C), lenSq>>

\* The square of distanceToLineSegment as a fraction <<numerator,
\* denominator>>: param = -1 for a degenerate segment, otherwise dot/lenSq
\* clamped to the segment.
distanceToLineSegment(point, lineStart, lineEnd) ==
    LET A == point.x - lineStart.x
        B == point.y - lineStart.y
        C == lineEnd.x - lineStart.x
        D == lineEnd.y - lineStart.y
        dot == A * C + B * D
        lenSq == C * C + D * D
    IN  IF lenSq = 0 \/ dot < 0
        THEN <<A * A + B * B, 1>>
        ELSE IF dot > lenSq
        THEN <<(point.x - lineEnd.x) * (point.x - lineEnd.x)
               + (point.y - lineEnd.y) * (point.y - lineEnd.y), 1>>
        ELSE <<(A * D - B * C) * (A * D - B * C), lenSq>>

\* Variant of SegmentHit: a segment exactly at the threshold is hit too.
SegmentHitInclusive(point, line, i) ==
    LET d == distanceToLineSegment(point, line.points[i], line.points[i + 1])
        t == IF line.thickness = 0 THEN DefaultThickness ELSE line.thickness
    IN  d[1] * (scale * zoomLevel) * (scale * zoomLevel) <= (t * 2 * 10) * (t * 2 * 10) * d[2]

\* distance < hitThreshold, hitThreshold = (thickness || 3) * 2 / (scale * zoomLevel)
SegmentHit(point, line, i) ==
    LET d == distanceToLineSegment(point, line.points[i], line.points[i + 1])
        t == IF line.thickness = 0 THEN DefaultThickness ELSE line.thickness
    IN  d[1] * (scale * zoomLevel) * (scale * zoomLevel) < (t * 2 * 10) * (t * 2 * 10) * d[2]

LineHit(point, line) ==
    \E i \in 1..(Len(line.points) - 1) : SegmentHit(point, line, i)

\* The first line of the collection with a segment within the threshold,
\* as <<line>>, or <<>> for null.
findLineAtPoint(point) ==
    IF \E k \in 1..Len(lines) : LineHit(point, lines[k])
    THEN <<lines[CHOOSE k \in 1..Len(lines) :
                    /\ LineHit(point, lines[k])
                    /\ \A j \in 1..(k - 1) : ~LineHit(point, lines[j])]>>
    ELSE <<>>

\* The first line of the collection that has a label under the point.
FirstLabelAt(c) ==
    IF \E k \in 1..Len(lines) : isPointNearLabel(c, lines[k])
    THEN <<lines[CHOOSE k \in 1..Len(lines) :
                    /\ isPointNearLabel(c, lines[k])
                    /\ \A j \in 1..(k - 1) : ~isPointNearLabel(c, lines[j])]>>
    ELSE <<>>

\* ------------------------------------------------------ rotation snap

\* tan(2.5 + 5j degrees) * 10^6 for j = 0..8: the boundaries between
\* neighbouring multiples of 5 degrees in the first octant.
TanBoundary == <<43661, 131652, 221695, 315299, 414214, 520567, 637070,
                 767327, 916331>>

\* Math.round(atan(b / a) in degrees / 5) for 0 <= b <= a, a > 0.
OctantRound(b, a) ==
    Cardinality({j \in 1..Len(TanBoundary) : b * 1000000 >= TanBoundary[j] * a})

\* Math.round(Math.atan2(dy, dx) * (180 / Math.PI) / 5) * 5 for dy >= 0.
UpperRound(dy, dx) ==
    IF dx = 0 /\ dy = 0 THEN 0
    ELSE LET ax == Abs(dx)
             q == IF dy <= ax THEN SnapStep * OctantRound(dy, ax)
                  ELSE 90 - SnapStep * OctantRound(ax, dy)
         IN  IF dx >= 0 THEN q ELSE 180 - q

RoundedAngle(dy, dx) ==
    IF dy >= 0 THEN UpperRound(dy, dx) ELSE -UpperRound(-dy, dx)

\* Variant of SnapRotation: the rounded angle without the wrap into
\* [0, 360).
UnwrappedRotation(dy, dx) == RoundedAngle(dy, dx)

\* newAngle of the rotate branch of handleMouseMove / handleTouchMove.
SnapRotation(dy, dx) ==
    LET a0 == RoundedAngle(dy, dx)
        a1 == IF a0 < 0 THEN a0 + 360 ELSE a0
    IN  IF a1 >= 360 THEN a1 - 360 ELSE a1

\* ---------------------------------------------------------- the scene

\* newLine of handleStartDrawing: id from Date.now(), style from the panel.
NewLine(t, px, py) ==
    [id |-> t, points |-> <<Pt(px, py)>>, color |-> color,
     opacity |-> OverHundred(opacity),
     label |-> "", labelRotation |-> labelRotation, labelPosition |-> <<>>,
     thickness |-> thickness]

\* Variant of DefaultLabelPosition: the label placed above the last point
\* of the stroke instead of its middle one.
LabelAtLastPoint(points) ==
    Pt(points[Len(points)].x, points[Len(points)].y - LabelOffset)

\* labelPosition of handleEndDrawing: the midpoint, 15 above.
DefaultLabelPosition(points) ==
    Pt(MidPoint(points).x, MidPoint(points).y - LabelOffset)

\* The entry handleEndDrawing appends for the in-progress line cl.
CommittedLine(cl) ==
    IF Len(cl.points) >= 2
    THEN [cl EXCEPT !.labelPosition = <<DefaultLabelPosition(cl.points)>>]
    ELSE cl

\* Variant of handleStartDrawing: a new line is started whether or not a
\* line is selected.
StartKeepingSelection(px, py) ==
    /\ \E t \in now..Min(now + 1, MaxClock) :
          /\ now' = t
          /\ currentLine' = <<NewLine(t, px, py)>>
    /\ isDrawing' = TRUE
    /\ UNCHANGED selectedLine

handleStartDrawing(px, py) ==
    IF selectedLine # <<>>
    THEN /\ selectedLine' = <<>>
         /\ UNCHANGED <<currentLine, isDrawing, now>>
    ELSE /\ \E t \in now..Min(now + 1, MaxClock) :
               /\ now' = t
               /\ currentLine' = <<NewLine(t, px, py)>>
         /\ isDrawing' = TRUE
         /\ UNCHANGED selectedLine

handleDrawing(px, py) ==
    IF ~isDrawing \/ currentLine = <<>>
    THEN UNCHANGED currentLine
    ELSE currentLine' = <<[currentLine[1] EXCEPT
                              !.points = Append(@, Pt(px, py))]>>

handleEndDrawing ==
    IF ~isDrawing \/ currentLine = <<>>
    THEN UNCHANGED <<lines, currentLine, isDrawing>>
    ELSE /\ lines' = Append(lines, CommittedLine(currentLine[1]))
         /\ currentLine' = <<>>
         /\ isDrawing' = FALSE

\* Variant of handleSelectLine: the panel's colour and opacity are left as
\* they are.
SelectKeepingStyle(line) ==
    /\ selectedLine' = <<line>>
    /\ UNCHANGED <<color, opacity>>
    /\ label' = line.label
    /\ labelRotation' = line.labelRotation
    /\ thickness' = IF line.thickness = 0 THEN DefaultThickness ELSE line.thickness

handleSelectLine(line) ==
    /\ selectedLine' = <<line>>
    /\ color' = line.color
    /\ opacity' = TimesHundred(line.opacity)
    /\ label' = line.label
    /\ labelRotation' = line.labelRotation
    /\ thickness' = IF line.thickness = 0 THEN DefaultThickness ELSE line.thickness

handleRotateLabel(angle) ==
    /\ labelRotation' = angle
    /\ lines' = IF selectedLine # <<>>
                THEN [k \in 1..Len(lines) |->
                        IF lines[k].id = selectedLine[1].id
                        THEN [lines[k] EXCEPT !.labelRotation = angle]
                        ELSE lines[k]]
                ELSE lines

\* Variant of handleUpdateLabelPosition: the line's first point follows the
\* label.
handleUpdateLabelPositionMovingLine(lineId, position) ==
    lines' = [k \in 1..Len(lines) |->
                IF lines[k].id = lineId
                THEN [lines[k] EXCEPT !.labelPosition = <<position>>,
                                      !.points = <<position>> \o Tail(@)]
                ELSE lines[k]]

handleUpdateLabelPosition(lineId, position) ==
    lines' = [k \in 1..Len(lines) |->
                IF lines[k].id = lineId
                THEN [lines[k] EXCEPT !.labelPosition = <<position>>]
                ELSE lines[k]]

\* ------------------------------------------------ pointer state machine

\* The rotate entry shared by handleMouseDown and handleTouchStart:
\* rotationCenter is the selected line's label anchor.
EnterRotate ==
    /\ interactionMode' = "rotate"
    /\ rotationCenter' = <<LabelAnchor(selectedLine[1])>>
    /\ pressed' = "rotate"
    /\ UNCHANGED <<toolVars, now, canvasSize, imageSize, scale, isPanning,
                   lastPanPoint, hoveredLabel, isDraggingLabel, imageLoaded>>

EnterDrag ==
    /\ isDraggingLabel' = TRUE
    /\ interactionMode' = "drag"
    /\ pressed' = "drag"
    /\ UNCHANGED <<toolVars, now, canvasSize, imageSize, scale, isPanning,
                   lastPanPoint, hoveredLabel, rotationCenter, imageLoaded>>

\* The tail of handleMouseDown / handleTouchStart after the pan and
\* two-finger checks: rotation handle and label of the selected line, label
\* of any line, stroke of any line, empty space.
PressAt(cc) ==
    LET overSelected == selectedLine # <<>> /\ hoveredLabel = selectedLine[1].id
        img == getImageCoordinates(cc)
    IN  IF overSelected /\ isPointNearRotationControl(cc, selectedLine[1])
        THEN EnterRotate
        ELSE IF overSelected /\ isPointNearLabel(cc, selectedLine[1])
        THEN EnterDrag
        ELSE IF FirstLabelAt(cc) # <<>>
        THEN /\ handleSelectLine(FirstLabelAt(cc)[1])
             /\ hoveredLabel' = FirstLabelAt(cc)[1].id
             /\ pressed' = "select"
             /\ UNCHANGED <<lines, currentLine, isDrawing, zoomLevel, panOffset,
                            now, canvasSize, imageSize, scale, isPanning,
                            lastPanPoint, isDraggingLabel, rotationCenter,
                            interactionMode, imageLoaded>>
        ELSE IF findLineAtPoint(img) # <<>>
        THEN /\ handleSelectLine(findLineAtPoint(img)[1])
             /\ pressed' = "select"
             /\ UNCHANGED <<lines, currentLine, isDrawing, zoomLevel, panOffset,
                            now, canvasVars>>
        ELSE /\ interactionMode' = "draw"
             /\ handleStartDrawing(img.x, img.y)
             /\ pressed' = IF selectedLine # <<>> THEN "deselect" ELSE "start"
             /\ UNCHANGED <<lines, color, opacity, label, labelRotation,
                            thickness, zoomLevel, panOffset, canvasSize,
                            imageSize, scale, isPanning, lastPanPoint,
                            hoveredLabel, isDraggingLabel, rotationCenter,
                            imageLoaded>>

handleMouseDown(c, button, shiftKey) ==
    /\ imageLoaded
    /\ UNCHANGED loadVars
    /\ Representable(Screen(c))
    /\ IF button = 1 \/ (button = 0 /\ shiftKey)
       THEN /\ isPanning' = TRUE
            /\ lastPanPoint' = c
            /\ interactionMode' = "pan"
            /\ pressed' = "pan"
            /\ UNCHANGED <<toolVars, now, canvasSize, imageSize, scale,
                           hoveredLabel, isDraggingLabel, rotationCenter,
                           imageLoaded>>
       ELSE PressAt(Screen(c))

handleTouchStart(c, touches) ==
    /\ imageLoaded
    /\ UNCHANGED loadVars
    /\ Representable(Screen(c))
    /\ IF touches = 2
       THEN /\ isPanning' = TRUE
            /\ pressed' = "pinch"
            /\ UNCHANGED <<toolVars, now, canvasSize, imageSize, scale,
                           lastPanPoint, hoveredLabel, isDraggingLabel,
                           rotationCenter, interactionMode, imageLoaded>>
       ELSE PressAt(Screen(c))

\* The rotate branch of handleMouseMove / handleTouchMove.
RotateTo(cc) ==
    /\ handleRotateLabel(SnapRotation(cc.y - rotationCenter[1].y,
                                      cc.x - rotationCenter[1].x))
    /\ UNCHANGED <<currentLine, isDrawing, selectedLine, color, opacity, label,
                   thickness, zoomLevel, panOffset, now, canvasVars, pressed>>

\* The drag branch of handleMouseMove / handleTouchMove.
DragTo(cc) ==
    /\ handleUpdateLabelPosition(selectedLine[1].id, getImageCoordinates(cc))
    /\ UNCHANGED <<currentLine, isDrawing, selectedLine, color, opacity, label,
                   labelRotation, thickness, zoomLevel, panOffset, now,
                   canvasVars, pressed>>

\* The id of the first labelled line whose label or rotation handle is
\* under the point, or null.
HoverAt(cc) ==
    IF \E k \in 1..Len(lines) :
          isPointNearLabel(cc, lines[k]) \/ isPointNearRotationControl(cc, lines[k])
    THEN lines[CHOOSE k \in 1..Len(lines) :
                 /\ isPointNearLabel(cc, lines[k])
                    \/ isPointNearRotationControl(cc, lines[k])
                 /\ \A j \in 1..(k - 1) :
                       ~(isPointNearLabel(cc, lines[j])
                         \/ isPointNearRotationControl(cc, lines[j]))].id
    ELSE Null

\* The draw branch of handleMouseMove / handleTouchMove.
DrawTo(cc) ==
    /\ IF interactionMode = "draw"
       THEN handleDrawing(getImageCoordinates(cc).x, getImageCoordinates(cc).y)
       ELSE UNCHANGED currentLine
    /\ UNCHANGED <<pressed, lines, isDrawing, selectedLine, color, opacity, label,
                   labelRotation, thickness, zoomLevel, panOffset, now>>

\* Variant of PanTo: the last pan point is left where the press put it.
PanFromPress(c) ==
    /\ panOffset' = Pt(panOffset.x + (c.x - lastPanPoint.x) * SUB,
                       panOffset.y + (c.y - lastPanPoint.y) * SUB)
    /\ UNCHANGED <<pressed, lines, currentLine, isDrawing, selectedLine, color,
                   opacity, label, labelRotation, thickness, zoomLevel,
                   now, canvasSize, imageSize, scale, isPanning, lastPanPoint,
                   hoveredLabel, isDraggingLabel, rotationCenter,
                   interactionMode, imageLoaded>>

\* The pan branch of handleMouseMove: panOffset is moved by the pointer's
\* distance from the last pan point, which becomes the pointer's position.
PanTo(c) ==
    /\ panOffset' = Pt(panOffset.x + (c.x - lastPanPoint.x) * SUB,
                       panOffset.y + (c.y - lastPanPoint.y) * SUB)
    /\ lastPanPoint' = c
    /\ UNCHANGED <<pressed, lines, currentLine, isDrawing, selectedLine, color,
                   opacity, label, labelRotation, thickness, zoomLevel,
                   now, canvasSize, imageSize, scale, isPanning,
                   hoveredLabel, isDraggingLabel, rotationCenter,
                   interactionMode, imageLoaded>>

handleMouseMove(c) ==
    /\ imageLoaded
    /\ UNCHANGED loadVars
    /\ Representable(Screen(c))
    /\ IF isPanning
       THEN PanTo(c)
       ELSE IF interactionMode = "rotate" /\ rotationCenter # <<>>
       THEN RotateTo(Screen(c))
       ELSE IF interactionMode = "drag" /\ selectedLine # <<>> /\ isDraggingLabel
       THEN DragTo(Screen(c))
       ELSE /\ hoveredLabel' = HoverAt(Screen(c))
            /\ DrawTo(Screen(c))
            /\ UNCHANGED <<canvasSize, imageSize, scale, isPanning, lastPanPoint,
                           isDraggingLabel, rotationCenter, interactionMode,
                           imageLoaded>>

handleTouchMove(c, touches) ==
    /\ imageLoaded
    /\ UNCHANGED loadVars
    /\ Representable(Screen(c))
    /\ IF isPanning /\ touches = 2
       THEN UNCHANGED <<toolVars, now, canvasVars, pressed>>
       ELSE IF interactionMode = "rotate" /\ rotationCenter # <<>>
       THEN RotateTo(Screen(c))
       ELSE IF interactionMode = "drag" /\ selectedLine # <<>> /\ isDraggingLabel
       THEN DragTo(Screen(c))
       ELSE /\ DrawTo(Screen(c))
            /\ UNCHANGED canvasVars

\* The body shared by handleMouseUp (also the mouseleave handler) and
\* handleTouchEnd.
Release ==
    /\ imageLoaded
    /\ UNCHANGED loadVars
    /\ isPanning' = FALSE
    /\ rotationCenter' = IF interactionMode = "rotate" THEN <<>> ELSE rotationCenter
    /\ isDraggingLabel' = FALSE
    /\ IF interactionMode = "draw"
       THEN handleEndDrawing
       ELSE UNCHANGED <<lines, currentLine, isDrawing>>
    /\ interactionMode' = "draw"
    /\ pressed' = "none"
    /\ UNCHANGED <<selectedLine, color, opacity, label, labelRotation, thickness,
                   zoomLevel, panOffset, now, canvasSize, imageSize, scale,
                   lastPanPoint, hoveredLabel, imageLoaded>>

handleMouseUp == Release

handleTouchEnd == Release

\* ------------------------------------------------------ the edit panel

\* The label input (onChange -> setLabel), shown while a line is selected.
SetLabel(l) ==
    /\ selectedLine # <<>>
    /\ UNCHANGED loadVars
    /\ label # l
    /\ label' = l
    /\ UNCHANGED <<lines, currentLine, isDrawing, selectedLine, color, opacity,
                   labelRotation, thickness, zoomLevel, panOffset, now,
                   canvasVars, pressed>>

\* The colour picker (onChange -> setColor).
SetColor(c) ==
    /\ ~isLoading
    /\ color # c
    /\ color' = c
    /\ UNCHANGED <<lines, currentLine, isDrawing, selectedLine, opacity, label,
                   labelRotation, thickness, zoomLevel, panOffset, now,
                   canvasVars, loadVars, pressed>>

\* The opacity slider (onValueChange -> setOpacity), whole steps of 0..100.
SetOpacity(n) ==
    /\ ~isLoading
    /\ opacity # Percent(n)
    /\ opacity' = Percent(n)
    /\ UNCHANGED <<lines, currentLine, isDrawing, selectedLine, color, label,
                   labelRotation, thickness, zoomLevel, panOffset, now,
                   canvasVars, loadVars, pressed>>

\* The thickness radio group (onValueChange -> handleThicknessChange).
handleThicknessChange(value) ==
    /\ ~isLoading
    /\ thickness # value
    /\ thickness' = value
    /\ UNCHANGED <<lines, currentLine, isDrawing, selectedLine, color, opacity,
                   label, labelRotation, zoomLevel, panOffset, now,
                   canvasVars, loadVars, pressed>>

\* The rotation slider of the selected-line panel
\* (onValueChange -> handleRotateLabel).
RotationSlider(angle) ==
    /\ ~isLoading
    /\ selectedLine # <<>>
    /\ labelRotation # angle
    /\ handleRotateLabel(angle)
    /\ UNCHANGED <<currentLine, isDrawing, selectedLine, color, opacity, label,
                   thickness, zoomLevel, panOffset, now, canvasVars, loadVars,
                   pressed>>

\* The button next to the rotation slider (onClick -> handleRotateLabel(0)).
RotationReset ==
    /\ ~isLoading
    /\ selectedLine # <<>>
    /\ handleRotateLabel(0)
    /\ UNCHANGED <<currentLine, isDrawing, selectedLine, color, opacity, label,
                   thickness, zoomLevel, panOffset, now, canvasVars, loadVars,
                   pressed>>

handleUpdateSelectedLine ==
    /\ selectedLine # <<>>
    /\ UNCHANGED loadVars
    /\ lines' = [k \in 1..Len(lines) |->
                   IF lines[k].id = selectedLine[1].id
                   THEN [lines[k] EXCEPT !.color = color,
                                         !.opacity = OverHundred(opacity),
                                         !.label = label,
                                         !.labelRotation = labelRotation,
                                         !.thickness = thickness]
                   ELSE lines[k]]
    /\ selectedLine' = <<>>
    /\ UNCHANGED <<currentLine, isDrawing, color, opacity, label, labelRotation,
                   thickness, zoomLevel, panOffset, now, canvasVars, pressed>>

handleDeleteLine ==
    /\ selectedLine # <<>>
    /\ UNCHANGED loadVars
    /\ lines' = SelectSeq(lines, LAMBDA ln : ln.id # selectedLine[1].id)
    /\ selectedLine' = <<>>
    /\ UNCHANGED <<currentLine, isDrawing, color, opacity, label, labelRotation,
                   thickness, zoomLevel, panOffset, now, canvasVars, pressed>>

\* Variant of handleUndo: the oldest line is removed.
handleUndoOldest ==
    /\ Len(lines) > 0
    /\ UNCHANGED loadVars
    /\ lines' = Tail(lines)
    /\ UNCHANGED <<currentLine, isDrawing, selectedLine, color, opacity, label,
                   labelRotation, thickness, zoomLevel, panOffset, now,
                   canvasVars, pressed>>

handleUndo ==
    /\ Len(lines) > 0
    /\ UNCHANGED loadVars
    /\ lines' = SubSeq(lines, 1, Len(lines) - 1)
    /\ UNCHANGED <<currentLine, isDrawing, selectedLine, color, opacity, label,
                   labelRotation, thickness, zoomLevel, panOffset, now,
                   canvasVars, pressed>>

handleClearAll ==
    /\ Len(lines) > 0
    /\ UNCHANGED loadVars
    /\ lines' = <<>>
    /\ selectedLine' = <<>>
    /\ UNCHANGED <<currentLine, isDrawing, color, opacity, label, labelRotation,
                   thickness, zoomLevel, panOffset, now, canvasVars, pressed>>

\* ------------------------------------------------------ zoom and wheel

\* The lowest and the highest zoomLevel, in tenths.
MinZoom == 5

MaxZoom == 30

Max(a, b) == IF a >= b THEN a ELSE b

\* Variant of handleZoomIn: one notch up without the upper limit.
ZoomInUnclamped ==
    /\ ~isLoading
    /\ zoomLevel' = zoomLevel + 1
    /\ UNCHANGED <<lines, currentLine, isDrawing, selectedLine, color, opacity,
                   label, labelRotation, thickness, panOffset, canvasVars,
                   loadVars, now, pressed>>

\* setZoomLevel((prev) => Math.min(prev + 0.1, 3))
handleZoomIn ==
    /\ ~isLoading
    /\ zoomLevel' = Min(zoomLevel + 1, MaxZoom)
    /\ UNCHANGED <<lines, currentLine, isDrawing, selectedLine, color, opacity,
                   label, labelRotation, thickness, panOffset, canvasVars,
                   loadVars, now, pressed>>

\* setZoomLevel((prev) => Math.max(prev - 0.1, 0.5))
handleZoomOut ==
    /\ ~isLoading
    /\ zoomLevel' = Max(zoomLevel - 1, MinZoom)
    /\ UNCHANGED <<lines, currentLine, isDrawing, selectedLine, color, opacity,
                   label, labelRotation, thickness, panOffset, canvasVars,
                   loadVars, now, pressed>>

handleResetZoom ==
    /\ ~isLoading
    /\ zoomLevel' = DefaultZoom
    /\ UNCHANGED <<lines, currentLine, isDrawing, selectedLine, color, opacity,
                   label, labelRotation, thickness, panOffset, canvasVars,
                   loadVars, now, pressed>>

resetPanOffset ==
    /\ ~isLoading
    /\ panOffset' = Pt(0, 0)
    /\ UNCHANGED <<lines, currentLine, isDrawing, selectedLine, color, opacity,
                   label, labelRotation, thickness, zoomLevel, canvasVars,
                   loadVars, now, pressed>>

\* (mouse - canvasSize / 2) * 0.05 along one axis, in screen sub-units, for
\* the pointer coordinate m in CSS pixels and the canvas extent in CSS pixels.
WheelShift(m, extent) == ((2 * m - extent) * SUB) \div 40

\* handleWheel: newZoom is computed and logged, never stored; panOffset is
\* moved by a twentieth of the pointer's offset from the canvas center,
\* against it for deltaY <= 0 and along it for deltaY > 0.
handleWheel(c, deltaY) ==
    /\ ~isLoading
    /\ imageLoaded
    /\ LET delta == IF deltaY > 0 THEN -1 ELSE 1
           newZoom == Max(MinZoom, Min(MaxZoom, zoomLevel + delta))
           sx == WheelShift(c.x, canvasSize.width)
           sy == WheelShift(c.y, canvasSize.height)
       IN  /\ newZoom \in MinZoom..MaxZoom
           /\ panOffset' = IF delta > 0
                           THEN Pt(panOffset.x - sx, panOffset.y - sy)
                           ELSE Pt(panOffset.x + sx, panOffset.y + sy)
    /\ UNCHANGED <<lines, currentLine, isDrawing, selectedLine, color, opacity,
                   label, labelRotation, thickness, zoomLevel, canvasVars,
                   loadVars, now, pressed>>

\* -------------------------------------------------- the background image

\* The canvas and container elements exist only while DrawingCanvas renders
\* them: it renders a spinner instead while imageLoaded is false.
RefsAttached == ~isLoading /\ imageLoaded

\* setBackgroundImage(img): the image-load effect of a mounted DrawingCanvas
\* is scheduled when its backgroundImage prop changes.
SetBackgroundImage(img) ==
    /\ backgroundImage' = <<img>>
    /\ effectPending' = (effectPending \/ (~isLoading /\ backgroundImage # <<img>>))

\* The mount effect of MapDrawingTool: the default image is set, the tool's
\* spinner is replaced by the page and DrawingCanvas mounts.
loadDefaultImage ==
    /\ isLoading
    /\ backgroundImage' = <<DefaultImage>>
    /\ isLoading' = FALSE
    /\ effectPending' = TRUE
    /\ UNCHANGED <<toolVars, canvasVars, reading, decoding, now, pressed>>

\* The effect on [backgroundImage] of DrawingCanvas.
ImageLoadEffect ==
    /\ ~isLoading
    /\ effectPending
    /\ effectPending' = FALSE
    /\ IF ~RefsAttached
       THEN UNCHANGED <<imageLoaded, decoding>>
       ELSE /\ imageLoaded' = FALSE
            /\ decoding' = decoding \cup {[src |-> backgroundImage[1], onload |-> "effect"]}
    /\ UNCHANGED <<toolVars, canvasSize, imageSize, scale, isPanning,
                   lastPanPoint, hoveredLabel, isDraggingLabel, rotationCenter,
                   interactionMode, backgroundImage, isLoading, reading, now,
                   pressed>>

\* handleImageUpload: a FileReader is started on the chosen file.
handleImageUpload(file) ==
    /\ ~isLoading
    /\ reading' = reading \cup {file}
    /\ UNCHANGED <<toolVars, canvasVars, backgroundImage, isLoading,
                   effectPending, decoding, now, pressed>>

\* reader.onload of handleImageUpload.
readerOnload(file) ==
    /\ file \in reading
    /\ reading' = reading \ {file}
    /\ SetBackgroundImage(file)
    /\ UNCHANGED <<toolVars, canvasVars, isLoading, decoding, now, pressed>>

handleResetToDefaultImage ==
    /\ ~isLoading
    /\ SetBackgroundImage(DefaultImage)
    /\ lines' = <<>>
    /\ selectedLine' = <<>>
    /\ zoomLevel' = DefaultZoom
    /\ panOffset' = Pt(0, 0)
    /\ UNCHANGED <<currentLine, isDrawing, color, opacity, label, labelRotation,
                   thickness, canvasVars, isLoading, reading, decoding, now,
                   pressed>>

\* Math.min(containerWidth / img.width, containerHeight / img.height)
BaseScale(cw, ch, iw, ih) == Min(cw \div iw, ch \div ih)

\* img.width and img.height of a decoded image: the default image and the
\* uploads differ in size and in aspect ratio.
NaturalSize(img) ==
    IF img = DefaultImage THEN [width |-> NaturalW, height |-> NaturalH]
    ELSE IF img = "upload1" THEN [width |-> 20, height |-> 40]
    ELSE [width |-> 16, height |-> 10]

\* baseScale for the decoded image img in a container of the size c.
FitScale(img, c) ==
    BaseScale(c.width, c.height, NaturalSize(img).width, NaturalSize(img).height)

\* scaledWidth and scaledHeight for the decoded image img.
FitSize(img, c) ==
    [width |-> NaturalSize(img).width * FitScale(img, c),
     height |-> NaturalSize(img).height * FitScale(img, c)]

\* container.clientWidth and container.clientHeight.  The container element
\* is the root div of DrawingCanvas, which React keeps when the spinner
\* replaces the canvas, so the element captured by a closure still has its
\* layout size.
ContainerSize == [width |-> ContainerW, height |-> ContainerH]

\* img.onload of the image-load effect, for the Image d.
effectOnload(d) ==
    /\ d \in decoding
    /\ d.onload = "effect"
    /\ decoding' = decoding \ {d}
    /\ imageLoaded' = TRUE
    /\ canvasSize' = ContainerSize
    /\ imageSize' = FitSize(d.src, ContainerSize)
    /\ scale' = FitScale(d.src, ContainerSize)
    /\ UNCHANGED <<toolVars, isPanning, lastPanPoint, hoveredLabel,
                   isDraggingLabel, rotationCenter, interactionMode,
                   backgroundImage, isLoading, reading, effectPending, now,
                   pressed>>

\* Variant of effectOnload: an Image whose src is no longer the background
\* image reports without writing the geometry.
effectOnloadIfCurrent(d) ==
    /\ d \in decoding
    /\ d.onload = "effect"
    /\ decoding' = decoding \ {d}
    /\ imageLoaded' = TRUE
    /\ IF backgroundImage = <<d.src>>
       THEN /\ canvasSize' = ContainerSize
            /\ imageSize' = FitSize(d.src, ContainerSize)
            /\ scale' = FitScale(d.src, ContainerSize)
       ELSE UNCHANGED <<canvasSize, imageSize, scale>>
    /\ UNCHANGED <<toolVars, isPanning, lastPanPoint, hoveredLabel,
                   isDraggingLabel, rotationCenter, interactionMode,
                   backgroundImage, isLoading, reading, effectPending, now,
                   pressed>>

\* handleResize: the canvas takes the container's size and a new Image of
\* the background image is created to fit the image again.
handleResize ==
    /\ RefsAttached
    /\ backgroundImage # <<>>
    /\ canvasSize' = ContainerSize
    /\ decoding' = decoding \cup {[src |-> backgroundImage[1], onload |-> "resize"]}
    /\ UNCHANGED <<toolVars, imageSize, scale, isPanning, lastPanPoint,
                   hoveredLabel, isDraggingLabel, rotationCenter,
                   interactionMode, imageLoaded, backgroundImage, isLoading,
                   reading, effectPending, now, pressed>>

\* img.onload of handleResize, for the Image d.
resizeOnload(d) ==
    /\ d \in decoding
    /\ d.onload = "resize"
    /\ decoding' = decoding \ {d}
    /\ imageSize' = FitSize(d.src, ContainerSize)
    /\ scale' = FitScale(d.src, ContainerSize)
    /\ UNCHANGED <<toolVars, canvasSize, isPanning, lastPanPoint, hoveredLabel,
                   isDraggingLabel, rotationCenter, interactionMode,
                   imageLoaded, backgroundImage, isLoading, reading,
                   effectPending, now, pressed>>

\* ------------------------------------------------- double arithmetic

\* The numbers of the canvas component are JavaScript numbers: IEEE 754
\* doubles.  A double is a record [sign, man, exp] with value
\* sign * man * 2^exp; man is zero or has exactly Precision bits.  The
\* exponent range is never left by the values of the model.  man is a
\* natural number written in digits to the base Base, lowest digit first,
\* since the exact products and quotients below do not fit TLC's integers.
\*
\* TLC evaluates an operator's argument where the operator uses it, and
\* again at every further use; what a quantifier binds it evaluates once.
\* An intermediate result that is used more than once is therefore bound
\* as the element of a one-element set.
Base == 8192

DigitBits == 13

Precision == 53

\* The element of a one-element set.
Only(S) == CHOOSE x \in S : TRUE

Pow2Small(k) ==
    <<1, 2, 4, 8, 16, 32, 64, 128, 256, 512, 1024, 2048, 4096, 8192>>[k + 1]

SetMax(S) == Only({CHOOSE x \in T : \A y \in T : y <= x : T \in {S}})

Digit(a, i) == IF i >= 1 /\ i <= Len(a) THEN a[i] ELSE 0

\* x without its leading zero digits.
Trim(x) ==
    Only({SubSeq(a, 1, SetMax({0} \cup {i \in 1..Len(a) : a[i] # 0})) :
             a \in {x}})

\* The carry into the i-th place of the number whose places hold the
\* integers a[1], a[2], ...
RECURSIVE CarryInto(_, _)
CarryInto(a, i) ==
    IF i = 1 THEN 0 ELSE (a[i - 1] + CarryInto(a, i - 1)) \div Base

\* The digits of the number whose i-th place holds x[i] (any integer, the
\* total being a natural number); the carry out of the top place is below
\* Base * Base.  Appending to the empty sequence makes TLC work out the
\* elements of a sequence written as a function, once.
Carry(x) ==
    Only({<<>> \o [i \in 1..(Len(a) + 2) |->
                     IF i <= Len(a) THEN (a[i] + CarryInto(a, i)) % Base
                     ELSE IF i = Len(a) + 1 THEN CarryInto(a, i) % Base
                     ELSE CarryInto(a, i - 1) \div Base] :
             a \in {<<>> \o x}})

BigOf(n) == Trim(Carry(<<n>>))

BigAdd(x, y) ==
    Only({Trim(Carry([i \in 1..Max(Len(a), Len(b)) |->
                         Digit(a, i) + Digit(b, i)])) :
             a \in {x}, b \in {y}})

\* x - y for x >= y.
BigSub(x, y) ==
    Only({Trim(Carry([i \in 1..Len(a) |-> Digit(a, i) - Digit(b, i)])) :
             a \in {x}, b \in {y}})

RECURSIVE DigitProducts(_, _, _, _, _)
DigitProducts(a, b, k, lo, hi) ==
    IF lo > hi THEN 0
    ELSE a[lo] * b[k + 1 - lo] + DigitProducts(a, b, k, lo + 1, hi)

BigMul(x, y) ==
    Only({Trim(Carry([k \in 1..(Len(a) + Len(b)) |->
                         DigitProducts(a, b, k, Max(1, k + 1 - Len(b)),
                                       Min(Len(a), k))])) :
             a \in {x}, b \in {y}})

\* -1, 0 or 1 as x is below, equal to or above y.
BigCmp(x, y) ==
    Only({IF Len(a) < Len(b) THEN -1
          ELSE IF Len(a) > Len(b) THEN 1
          ELSE IF a = b THEN 0
          ELSE Only({IF a[i] < b[i] THEN -1 ELSE 1 :
                        i \in {SetMax({j \in 1..Len(a) : a[j] # b[j]})}}) :
             a \in {x}, b \in {y}})

\* The number of binary digits of x.
BitLen(x) ==
    Only({IF a = <<>> THEN 0
          ELSE (Len(a) - 1) * DigitBits
               + Cardinality({j \in 0..(DigitBits - 1) :
                                 Pow2Small(j) <= a[Len(a)]}) :
             a \in {x}})

\* The lowest binary digit of a.
LowBit(a) == Digit(a, 1) % 2

BigPow2(k) ==
    [i \in 1..(k \div DigitBits) |-> 0] \o <<Pow2Small(k % DigitBits)>>

\* x * 2^n
ShiftLeft(x, n) ==
    Only({IF a = <<>> THEN <<>>
          ELSE [i \in 1..(k \div DigitBits) |-> 0]
               \o Trim(Carry([i \in 1..Len(a) |->
                                 a[i] * Pow2Small(k % DigitBits)])) :
             a \in {x}, k \in {n}})

\* x \div 2^n
ShiftRight(x, n) ==
    Only({Trim(Carry([i \in 1..Max(Len(a) - d, 0) |->
                         Digit(a, i + d) \div Pow2Small(r)
                         + (Digit(a, i + d + 1) % Pow2Small(r))
                           * Pow2Small(DigitBits - r)])) :
             a \in {x}, d \in {n \div DigitBits}, r \in {n % DigitBits}})

\* One digit of a long division: the largest u with d * u <= r, for
\* r < d * Base and a d whose top digit is at least Base / 2, in which case
\* the quotient of the top digits is at most 2 too large.
QuotDigit(r, d) ==
    Only({SetMax({u \in {est - 2, est - 1, est} :
                     u >= 0 /\ BigCmp(BigMul(d, BigOf(u)), r) <= 0}) :
             est \in {Min((Digit(r, Len(d) + 1) * Base + Digit(r, Len(d)))
                             \div d[Len(d)], Base - 1)}})

\* Long division of the digits i, i-1, ..., 1 of a by d: r is the
\* remainder left by the digits above and q their quotient.
RECURSIVE DivFrom(_, _, _, _, _)
DivFrom(a, d, i, r, q) ==
    IF i = 0 THEN [quot |-> Trim(q), rem |-> r]
    ELSE Only({DivFrom(a, d, i - 1, BigSub(r2, BigMul(d, BigOf(t))),
                       <<t>> \o q) :
                  r2 \in {BigAdd(IF r = <<>> THEN <<>> ELSE <<0>> \o r,
                                 BigOf(a[i]))},
                  t \in {QuotDigit(BigAdd(IF r = <<>> THEN <<>> ELSE <<0>> \o r,
                                          BigOf(a[i])), d)}})

\* The number of binary digits by which d falls short of its top digit.
Slack(d) == DigitBits * Len(d) - BitLen(d)

\* quot is x \div y; rem is zero exactly when y divides x.
BigDivMod(x, y) ==
    Only({DivFrom(a, d, Max(Len(a) - (Len(d) - 1), 0),
                  Trim(SubSeq(a, Max(Len(a) - (Len(d) - 1), 0) + 1, Len(a))),
                  <<>>) :
             a \in {ShiftLeft(x, Slack(y))}, d \in {ShiftLeft(y, Slack(y))}})

Zero == [sign |-> 1, man |-> <<>>, exp |-> 0]

\* m without its k lowest binary digits, rounded to the nearest, a tie
\* going to the even one.
Cut(m, k) ==
    Only(UNION {{IF c > 0 \/ (c = 0 /\ LowBit(q) = 1)
                 THEN BigAdd(q, <<1>>) ELSE q :
                    c \in {BigCmp(BigSub(m, ShiftLeft(q, k)), BigPow2(k - 1))}} :
                 q \in {ShiftRight(m, k)}})

\* The double nearest sign * m * 2^e, m having n binary digits.
Rounded(sign, m, n, e) ==
    IF n = 0 THEN Zero
    ELSE IF n <= Precision
    THEN [sign |-> sign, man |-> ShiftLeft(m, Precision - n),
          exp |-> e - (Precision - n)]
    ELSE Only({IF BitLen(q) > Precision
               THEN [sign |-> sign, man |-> ShiftRight(q, 1),
                     exp |-> e + n - Precision + 1]
               ELSE [sign |-> sign, man |-> q, exp |-> e + n - Precision] :
                  q \in {Cut(m, n - Precision)}})

RoundTo(sign, x, e) ==
    Only(UNION {{Rounded(s, m, n, f) : n \in {BitLen(m)}} :
                 s \in {sign}, m \in {x}, f \in {e}})

\* The double of a whole number.
Dbl(n) == RoundTo(IF n < 0 THEN -1 ELSE 1, BigOf(Abs(n)), 0)

DblNeg(a) == [a EXCEPT !.sign = -a.sign]

MulOf(a, b) == RoundTo(a.sign * b.sign, BigMul(a.man, b.man), a.exp + b.exp)

\* x * y
DblMul(x, y) == Only({MulOf(a, b) : a \in {x}, b \in {y}})

\* sa * ma + sb * mb, times 2^e, for ma and mb above zero.
AddAligned(sa, ma, sb, mb, e) ==
    IF sa = sb THEN RoundTo(sa, BigAdd(ma, mb), e)
    ELSE Only({IF c = 0 THEN Zero
               ELSE IF c > 0 THEN RoundTo(sa, BigSub(ma, mb), e)
               ELSE RoundTo(sb, BigSub(mb, ma), e) :
                  c \in {BigCmp(ma, mb)}})

AddOf(a, b) ==
    IF a.man = <<>> THEN b
    ELSE IF b.man = <<>> THEN a
    ELSE Only({AddAligned(a.sign, ma, b.sign, mb, Min(a.exp, b.exp)) :
                  ma \in {ShiftLeft(a.man, a.exp - Min(a.exp, b.exp))},
                  mb \in {ShiftLeft(b.man, b.exp - Min(a.exp, b.exp))}})

\* x + y
DblAdd(x, y) == Only({AddOf(a, b) : a \in {x}, b \in {y}})

\* x - y
DblSub(x, y) == Only({AddOf(a, DblNeg(b)) : a \in {x}, b \in {y}})

\* The quotient to three bits more than a double holds, and one more bit
\* that is set when the division left a remainder.
DivOf(a, b) ==
    IF a.man = <<>> THEN Zero
    ELSE Only({RoundTo(a.sign * b.sign,
                       BigAdd(BigAdd(d.quot, d.quot),
                              IF d.rem = <<>> THEN <<>> ELSE <<1>>),
                       a.exp - b.exp - (Precision + 3) - 1) :
                  d \in {BigDivMod(ShiftLeft(a.man, Precision + 3), b.man)}})

\* x / y for y # 0
DblDiv(x, y) == Only({DivOf(a, b) : a \in {x}, b \in {y}})

LeOf(a, b) == \E d \in {AddOf(a, DblNeg(b))} : d.man = <<>> \/ d.sign = -1

\* x <= y
DblLe(x, y) == \E a \in {x}, b \in {y} : LeOf(a, b)

\* Math.min(x, y)
DblMin(x, y) == Only({IF LeOf(a, b) THEN a ELSE b : a \in {x}, b \in {y}})

\* Math.max(x, y)
DblMax(x, y) == Only({IF LeOf(a, b) THEN b ELSE a : a \in {x}, b \in {y}})

\* Math.abs(x)
DblAbs(x) == [x EXCEPT !.sign = 1]

\* ------------------------------------------- the transform in doubles

\* getImageCoordinates as the browser computes it.  In the specification
\* SpecTransform the viewport (canvasSize, imageSize, scale, zoomLevel,
\* panOffset) and the points of the in-progress line hold doubles.

\* const effectiveScale = scale * zoomLevel
effectiveScale == DblMul(scale, zoomLevel)

\* (canvasSize.width - imageSize.width * zoomLevel) / 2 + panOffset.x
imageX ==
    DblAdd(DblDiv(DblSub(canvasSize.width, DblMul(imageSize.width, zoomLevel)),
                  Dbl(2)),
           panOffset.x)

imageY ==
    DblAdd(DblDiv(DblSub(canvasSize.height, DblMul(imageSize.height, zoomLevel)),
                  Dbl(2)),
           panOffset.y)

\* The bounds test of getImageCoordinates, both ends included: c against
\* the image shown at (ix, iy), w wide and h high.
WithinImageBounds(c, ix, iy, w, h) ==
    /\ DblLe(ix, c.x)
    /\ DblLe(c.x, DblAdd(ix, w))
    /\ DblLe(iy, c.y)
    /\ DblLe(c.y, DblAdd(iy, h))

\* The two returns of getImageCoordinates.
ImageCoordinates(c, es, ix, iy, w, h) ==
    IF WithinImageBounds(c, ix, iy, w, h)
    THEN Pt(DblDiv(DblSub(c.x, ix), es), DblDiv(DblSub(c.y, iy), es))
    ELSE Pt(Dbl(0), Dbl(0))

getImageCoordinatesDbl(canvasCoords) ==
    Only({ImageCoordinates(c, es, ix, iy, w, h) :
             c \in {canvasCoords}, es \in {effectiveScale},
             ix \in {imageX}, iy \in {imageY},
             w \in {DblMul(imageSize.width, zoomLevel)},
             h \in {DblMul(imageSize.height, zoomLevel)}})

\* The screen position of the image point p: imageX + p.x * effectiveScale.
imageToScreen(p) ==
    Only({Pt(DblAdd(ix, DblMul(Dbl(p.x), es)), DblAdd(iy, DblMul(Dbl(p.y), es))) :
             es \in {effectiveScale}, ix \in {imageX}, iy \in {imageY}})

\* The literal 0.1 of the zoom buttons.
Tenth == DblDiv(Dbl(1), Dbl(10))

\* The literal 0.5 of handleZoomOut.
Half == DblDiv(Dbl(1), Dbl(2))

\* setZoomLevel((prev) => Math.min(prev + 0.1, 3))
ZoomInDbl ==
    /\ ~isLoading
    /\ zoomLevel' = DblMin(DblAdd(zoomLevel, Tenth), Dbl(3))
    /\ UNCHANGED <<lines, currentLine, isDrawing, selectedLine, color, opacity,
                   label, labelRotation, thickness, panOffset, canvasVars,
                   loadVars, now, pressed>>

\* setZoomLevel((prev) => Math.max(prev - 0.1, 0.5))
ZoomOutDbl ==
    /\ ~isLoading
    /\ zoomLevel' = DblMax(DblSub(zoomLevel, Tenth), Half)
    /\ UNCHANGED <<lines, currentLine, isDrawing, selectedLine, color, opacity,
                   label, labelRotation, thickness, panOffset, canvasVars,
                   loadVars, now, pressed>>

\* handleMouseDown with the left button at the screen position of the
\* image point p, nothing selected and no line in the scene: the press
\* starts a line at getImageCoordinates of the position.
PressOnImagePoint(p) ==
    /\ ~isDrawing
    /\ selectedLine = <<>>
    /\ lines = <<>>
    /\ \E at \in {getImageCoordinatesDbl(imageToScreen(p))} :
          handleStartDrawing(at.x, at.y)
    /\ interactionMode' = "draw"
    /\ pressed' = "start"
    /\ UNCHANGED <<lines, color, opacity, label, labelRotation, thickness,
                   zoomLevel, panOffset, canvasSize, imageSize, scale,
                   isPanning, lastPanPoint, hoveredLabel, isDraggingLabel,
                   rotationCenter, imageLoaded, loadVars>>

\* -------------------------------------------------------- specification

\* The state in which the canvas is shown: the default image has been
\* decoded and img.onload has sized the canvas and fitted the image.  The
\* pointer, wheel and touch handlers are attached to the canvas element, so
\* they run from this state on only; SpecLoad below starts at the
\* construction of the page instead and shows how far the image-load
\* effect gets from there.
Init ==
    /\ lines = <<>>
    /\ currentLine = <<>>
    /\ isDrawing = FALSE
    /\ selectedLine = <<>>
    /\ color = "#FF0000"
    /\ opacity = Percent(DefaultOpacity)
    /\ label = ""
    /\ labelRotation = 0
    /\ thickness = DefaultThickness
    /\ zoomLevel = DefaultZoom
    /\ panOffset = Pt(0, 0)
    /\ canvasSize = [width |-> ContainerW, height |-> ContainerH]
    /\ scale = BaseScale(ContainerW, ContainerH, NaturalW, NaturalH)
    /\ imageSize = [width |-> NaturalW * BaseScale(ContainerW, ContainerH, NaturalW, NaturalH),
                    height |-> NaturalH * BaseScale(ContainerW, ContainerH, NaturalW, NaturalH)]
    /\ isPanning = FALSE
    /\ lastPanPoint = Pt(0, 0)
    /\ hoveredLabel = Null
    /\ isDraggingLabel = FALSE
    /\ rotationCenter = <<>>
    /\ interactionMode = "draw"
    /\ imageLoaded = TRUE
    /\ backgroundImage = <<DefaultImage>>
    /\ isLoading = FALSE
    /\ reading = {}
    /\ effectPending = FALSE
    /\ decoding = {}
    /\ now = 0
    /\ pressed = "none"

\* Pointer-down with the left or the right button, no modifier.
MousePress ==
    \E c \in Pointers, button \in {0, 2} : handleMouseDown(c, button, FALSE)

\* Pointer-down with the pan trigger: middle button, or shift + left button.
MousePanPress ==
    \E c \in Pointers :
       \/ handleMouseDown(c, 1, FALSE)
       \/ handleMouseDown(c, 0, TRUE)

MouseMove == \E c \in Pointers : handleMouseMove(c)

TouchStart == \E c \in Pointers, touches \in 1..2 : handleTouchStart(c, touches)

TouchMove == \E c \in Pointers, touches \in 1..2 : handleTouchMove(c, touches)

TypeLabel == \E l \in Labels : SetLabel(l)

\* panOffset stays within n sub-units of the origin.
ShiftBound(n) == Abs(panOffset'.x) <= n /\ Abs(panOffset'.y) <= n

\* A press starts a new line only while fewer than n lines are committed.
StartBound(n) == pressed' = "start" => Len(lines) < n

\* The in-progress line has at most n points.
PointBound(n) ==
    currentLine' # <<>> => Len(currentLine'[1].points) <= n

\* Drawing, selection by stroke and panning: the label text is never typed,
\* so no line carries a label.
DrawNext ==
    \/ MousePress /\ StartBound(MaxLines)
    \/ MousePanPress
    \/ MouseMove /\ PointBound(MaxPts) /\ ShiftBound(MaxPan * SUB)
    \/ handleMouseUp
    \/ TouchStart /\ StartBound(MaxLines)
    \/ TouchMove /\ PointBound(MaxPts)
    \/ handleTouchEnd
    \/ handleUpdateSelectedLine
    \/ handleDeleteLine
    \/ handleUndo
    \/ handleClearAll

SpecDraw == Init /\ [][DrawNext]_vars

\* Labels, rotation and label dragging on a scene of at most MaxLabelScene
\* lines (committed or in progress), without the pan trigger.
SceneSize == Len(lines) + Len(currentLine)

LabelNext ==
    \/ MousePress /\ SceneSize' <= MaxLabelScene
    \/ MouseMove /\ PointBound(MaxPts) /\ ShiftBound(MaxPan * SUB)
    \/ handleMouseUp
    \/ TouchStart /\ SceneSize' <= MaxLabelScene
    \/ TouchMove /\ PointBound(MaxPts)
    \/ handleTouchEnd
    \/ TypeLabel
    \/ handleUpdateSelectedLine
    \/ handleDeleteLine
    \/ handleUndo
    \/ handleClearAll

SpecLabel == Init /\ [][LabelNext]_vars

\* Strokes of up to MaxStrokePts points drawn with the mouse alone.
StrokeNext ==
    \/ MousePress /\ StartBound(MaxLines)
    \/ MouseMove /\ PointBound(MaxStrokePts) /\ ShiftBound(MaxPan * SUB)
    \/ handleMouseUp

SpecStroke == Init /\ [][StrokeNext]_vars

\* The values the panel's controls are set to.
Colors == {"#FF0000", "#0000FF"}

Opacities == {7, 100}

Thicknesses == {3, 5}

SliderAngles == {0, 90}

PickColor == \E c \in Colors : SetColor(c)

SlideOpacity == \E n \in Opacities : SetOpacity(n)

PickThickness == \E v \in Thicknesses : handleThicknessChange(v)

SlideRotation == \E a \in SliderAngles : RotationSlider(a)

\* The edit panel worked with the mouse on a scene of at most
\* MaxLabelScene lines; on the canvas lines are drawn and selected, the
\* pointer moves only while a line is being drawn, and Date.now() reads the
\* same at every press.
PanelNext ==
    \/ MousePress /\ SceneSize' <= MaxLabelScene /\ now' = now
    \/ MouseMove /\ isDrawing /\ interactionMode = "draw" /\ PointBound(MaxPts)
       /\ ShiftBound(MaxPan * SUB)
    \/ handleMouseUp
    \/ PickColor
    \/ SlideOpacity
    \/ PickThickness
    \/ TypeLabel
    \/ SlideRotation
    \/ RotationReset
    \/ handleUpdateSelectedLine

SpecPanel == Init /\ [][PanelNext]_vars

\* The wheel turned over the canvas, up or down.
Wheel == \E c \in Pointers, deltaY \in {-1, 1} : handleWheel(c, deltaY)

\* Zoom buttons, the wheel, recentring and the reset to the default image.
ViewNext ==
    \/ handleZoomIn
    \/ handleZoomOut
    \/ handleResetZoom
    \/ Wheel /\ ShiftBound(MaxWheelShift)
    \/ resetPanOffset
    \/ handleResetToDefaultImage

SpecView == Init /\ [][ViewNext]_vars

\* The state after construction: MapDrawingTool shows its spinner, no
\* background image is set, and the state of DrawingCanvas is what its
\* useState calls give it when it mounts.
InitLoad ==
    /\ lines = <<>>
    /\ currentLine = <<>>
    /\ isDrawing = FALSE
    /\ selectedLine = <<>>
    /\ color = "#FF0000"
    /\ opacity = Percent(DefaultOpacity)
    /\ label = ""
    /\ labelRotation = 0
    /\ thickness = DefaultThickness
    /\ zoomLevel = DefaultZoom
    /\ panOffset = Pt(0, 0)
    /\ canvasSize = [width |-> 0, height |-> 0]
    /\ imageSize = [width |-> 0, height |-> 0]
    /\ scale = 1
    /\ isPanning = FALSE
    /\ lastPanPoint = Pt(0, 0)
    /\ hoveredLabel = Null
    /\ isDraggingLabel = FALSE
    /\ rotationCenter = <<>>
    /\ interactionMode = "draw"
    /\ imageLoaded = FALSE
    /\ backgroundImage = <<>>
    /\ isLoading = TRUE
    /\ reading = {}
    /\ effectPending = FALSE
    /\ decoding = {}
    /\ now = 0
    /\ pressed = "none"

\* A file is chosen in the upload dialog.
Upload == \E file \in Uploads : handleImageUpload(file)

\* A FileReader reports its result.
ReaderDone == \E file \in Uploads : readerOnload(file)

\* The page from its construction on: the mount of the tool and of the
\* canvas, uploads, the reset to the default image and the zoom buttons.
LoadNext ==
    \/ loadDefaultImage
    \/ ImageLoadEffect
    \/ Upload
    \/ ReaderDone
    \/ handleResetToDefaultImage
    \/ handleZoomIn
    \/ handleZoomOut
    \/ handleResetZoom

SpecLoad == InitLoad /\ [][LoadNext]_vars

\* Effects and FileReader callbacks that are due are eventually run.
SpecLoadFair ==
    /\ SpecLoad
    /\ WF_vars(loadDefaultImage)
    /\ WF_vars(ImageLoadEffect)
    /\ WF_vars(ReaderDone)

\* The viewports of SpecTransform: the default image in a container it
\* fits by a power of two and in one it fits by 4/3.
Containers == {[width |-> 80, height |-> 80], [width |-> 60, height |-> 40]}

Pans == {Pt(0, 0), Pt(1, -3)}

ImagePoints == {Pt(x, y) : x \in {0, 7, NaturalW}, y \in {0, 11, NaturalH}}

\* Math.min(containerWidth / img.width, containerHeight / img.height)
BaseScaleDbl(c) ==
    DblMin(DblDiv(Dbl(c.width), Dbl(NaturalW)),
           DblDiv(Dbl(c.height), Dbl(NaturalH)))

\* The canvas shown as in Init, the numbers of the viewport being the
\* doubles that img.onload computes from the container and the image.
InitTransform ==
    /\ \E c \in Containers :
          \E baseScale \in {BaseScaleDbl(c)} :
             /\ canvasSize = [width |-> Dbl(c.width), height |-> Dbl(c.height)]
             /\ scale = baseScale
             /\ imageSize = [width |-> DblMul(Dbl(NaturalW), baseScale),
                             height |-> DblMul(Dbl(NaturalH), baseScale)]
    /\ zoomLevel = Dbl(1)
    /\ \E p \in Pans : panOffset = Pt(Dbl(p.x), Dbl(p.y))
    /\ lines = <<>>
    /\ currentLine = <<>>
    /\ isDrawing = FALSE
    /\ selectedLine = <<>>
    /\ color = "#FF0000"
    /\ opacity = Percent(DefaultOpacity)
    /\ label = ""
    /\ labelRotation = 0
    /\ thickness = DefaultThickness
    /\ isPanning = FALSE
    /\ lastPanPoint = Pt(0, 0)
    /\ hoveredLabel = Null
    /\ isDraggingLabel = FALSE
    /\ rotationCenter = <<>>
    /\ interactionMode = "draw"
    /\ imageLoaded = TRUE
    /\ backgroundImage = <<DefaultImage>>
    /\ isLoading = FALSE
    /\ reading = {}
    /\ effectPending = FALSE
    /\ decoding = {}
    /\ now = 0
    /\ pressed = "none"

PressOnImage == \E p \in ImagePoints : PressOnImagePoint(p)

TransformNext ==
    \/ ZoomInDbl
    \/ ZoomOutDbl
    \/ PressOnImage

SpecTransform == InitTransform /\ [][TransformNext]_vars

\* The strokes of SpecHit: a horizontal and a slanted segment, a stroke of
\* three points, a stroke whose two points coincide and a single point.
HitStrokes ==
    {<<Pt(16, 14), Pt(24, 14)>>, <<Pt(17, 12), Pt(23, 18)>>,
     <<Pt(16, 12), Pt(20, 16), Pt(24, 12)>>, <<Pt(20, 14), Pt(20, 14)>>,
     <<Pt(20, 14)>>}

\* The three values of the thickness radio group.
HitThicknesses == {1, 3, 5}

HitZooms == {5, 10, 20, 30}

QueryPoints == {Pt(x, y) : x \in 12..28, y \in 8..22}

\* The canvas shown with one committed line: the stroke was drawn at the
\* panel's thickness, and the zoom buttons were pressed.
InitHit ==
    /\ \E points \in HitStrokes, t \in HitThicknesses :
          /\ thickness = t
          /\ lines = <<CommittedLine(
                          [id |-> 0, points |-> points, color |-> "#FF0000",
                           opacity |-> OverHundred(Percent(DefaultOpacity)),
                           label |-> "", labelRotation |-> 0,
                           labelPosition |-> <<>>, thickness |-> t])>>
    /\ zoomLevel \in HitZooms
    /\ currentLine = <<>>
    /\ isDrawing = FALSE
    /\ selectedLine = <<>>
    /\ color = "#FF0000"
    /\ opacity = Percent(DefaultOpacity)
    /\ label = ""
    /\ labelRotation = 0
    /\ panOffset = Pt(0, 0)
    /\ canvasSize = [width |-> ContainerW, height |-> ContainerH]
    /\ scale = BaseScale(ContainerW, ContainerH, NaturalW, NaturalH)
    /\ imageSize = [width |-> NaturalW * BaseScale(ContainerW, ContainerH, NaturalW, NaturalH),
                    height |-> NaturalH * BaseScale(ContainerW, ContainerH, NaturalW, NaturalH)]
    /\ isPanning = FALSE
    /\ lastPanPoint = Pt(0, 0)
    /\ hoveredLabel = Null
    /\ isDraggingLabel = FALSE
    /\ rotationCenter = <<>>
    /\ interactionMode = "draw"
    /\ imageLoaded = TRUE
    /\ backgroundImage = <<DefaultImage>>
    /\ isLoading = FALSE
    /\ reading = {}
    /\ effectPending = FALSE
    /\ decoding = {}
    /\ now = 0
    /\ pressed = "none"

\* The screen position of the image point q, in sub-units.
ScreenOfImage(q) == Pt(ImageX + q.x * UnitScale, ImageY + q.y * UnitScale)

OnCanvas(cc) ==
    /\ cc.x >= 0
    /\ cc.x <= canvasSize.width * SUB
    /\ cc.y >= 0
    /\ cc.y <= canvasSize.height * SUB

\* The first press on the canvas, left button, at the image point q.
ProbeStroke(q) ==
    /\ imageLoaded
    /\ UNCHANGED loadVars
    /\ pressed = "none"
    /\ OnCanvas(ScreenOfImage(q))
    /\ PressAt(ScreenOfImage(q))

Probe == \E q \in QueryPoints : ProbeStroke(q)

SpecHit == InitHit /\ [][Probe]_vars

\* The pan gesture among presses that draw and select: one line at most,
\* drawn and selected while the image is centred, and panOffset within
\* MaxDrag pixels of the origin.
PanNext ==
    \/ MousePress /\ SceneSize' <= MaxLabelScene /\ panOffset = Pt(0, 0)
    \/ MousePanPress
    \/ MouseMove /\ PointBound(MaxPts) /\ ShiftBound(MaxDrag * SUB)
       /\ (isPanning \/ panOffset = Pt(0, 0))
    \/ handleMouseUp

SpecPan == Init /\ [][PanNext]_vars

\* The one stroke of SpecScene: from the image's corner to its middle.
SceneStroke ==
    currentLine' # <<>> =>
        currentLine'[1].points \in {<<Pt(0, 0)>>, <<Pt(0, 0), Pt(20, 20)>>}

\* The clock moves on between two presses that start a line.
Tick == pressed' = "start" => now' = now + 1

\* Nothing is pressed and no line is in progress.
Idle == pressed = "none" /\ currentLine = <<>>

\* The pointer position of the pan presses of the scene.
Grip == Pt(40, 50)

SceneNext ==
    \/ MousePress /\ StartBound(MaxLines) /\ SceneStroke /\ Tick
    \/ MousePanPress /\ lastPanPoint' = Grip
    \/ MouseMove /\ SceneStroke /\ ShiftBound(MaxPan * SUB)
    \/ handleMouseUp
    \/ TypeLabel
    \/ handleUpdateSelectedLine
    \/ handleDeleteLine
    \/ handleUndo
    \/ handleClearAll
    \/ handleZoomIn /\ zoomLevel' <= DefaultZoom + MaxNotches /\ Idle
    \/ handleZoomOut /\ zoomLevel' >= DefaultZoom /\ Idle
    \/ handleResetToDefaultImage

SpecScene == Init /\ [][SceneNext]_vars

\* The Images that may report: those of the image-load effect and those of
\* handleResize.
Images == {[src |-> i, onload |-> h] :
             i \in {DefaultImage} \cup Uploads, h \in {"effect", "resize"}}

EffectDecoded == \E d \in Images : effectOnload(d)

ResizeDecoded == \E d \in Images : resizeOnload(d)

\* The shown canvas with image changes and window resizes: uploads, the
\* reset to the default image, the image-load effect, resize events and
\* the completions of the decodes in any order.
DecodeNext ==
    \/ ImageLoadEffect
    \/ Upload
    \/ ReaderDone
    \/ handleResetToDefaultImage
    \/ handleResize
    \/ EffectDecoded
    \/ ResizeDecoded

SpecDecode == Init /\ [][DecodeNext]_vars

\* Two lines drawn along the same stroke in different colours, with the
\* clock free to stand still between them.
TwinNext ==
    \/ MousePress /\ StartBound(MaxLines) /\ SceneStroke
    \/ MouseMove /\ SceneStroke /\ ShiftBound(MaxPan * SUB)
    \/ handleMouseUp
    \/ PickColor
    \/ handleUpdateSelectedLine

SpecTwin == Init /\ [][TwinNext]_vars

\* ------------------------------------------------------------ properties

\* A pointer-down without the pan trigger: handleMouseDown(c, b, FALSE) for
\* a button b other than the middle one and handleTouchStart(c, 1) are both
\* this step.
PressOf(c) ==
    /\ imageLoaded
    /\ Representable(Screen(c))
    /\ PressAt(Screen(c))

\* A pointer move: the mouse, or one finger.
MoveOf(c) == handleMouseMove(c) \/ handleTouchMove(c, 1)

\* A pointer-up or pointer-leave that ends a draw gesture.
EndsDrawGesture ==
    /\ handleMouseUp \/ handleTouchEnd
    /\ interactionMode = "draw"
    /\ isDrawing
    /\ currentLine # <<>>

\* C1: a draw gesture whose in-progress line holds fewer than 2 points when
\* it ends adds no entry to the committed collection: the collection after
\* the gesture equals the collection before it.
C1_ShortGestureAddsNothing ==
    [][(EndsDrawGesture /\ Len(currentLine[1].points) < 2) => lines' = lines]_vars

\* C2: a draw gesture that ends with an in-progress line of n >= 2 points
\* appends exactly one entry at the end of the committed collection, with
\* the id and the points of the in-progress line and labelPosition =
\* (points[floor(n/2)].x, points[floor(n/2)].y - 15); the entries committed
\* before are unchanged and keep their order.
C2_GestureAppendsOneEntry ==
    [][(EndsDrawGesture /\ Len(currentLine[1].points) >= 2) =>
         LET cl == currentLine[1]
             n == Len(cl.points)
             mid == cl.points[(n \div 2) + 1]
         IN  /\ Len(lines') = Len(lines) + 1
             /\ \A k \in 1..Len(lines) : lines'[k] = lines[k]
             /\ lines'[Len(lines) + 1].id = cl.id
             /\ lines'[Len(lines) + 1].points = cl.points
             /\ lines'[Len(lines) + 1].labelPosition = <<Pt(mid.x, mid.y - 15)>>]_vars

\* A second committed line of three points whose middle and last points
\* differ, carrying the default label position.
C2_Witness ==
    /\ Len(lines) = 2
    /\ Len(lines[2].points) = 3
    /\ lines[2].points[2] # lines[2].points[3]
    /\ lines[2].labelPosition
         = <<Pt(lines[2].points[2].x, lines[2].points[2].y - 15)>>
    /\ pressed = "none"

\* C3: in drag mode, a pointer move (mouse or touch) whose screen position
\* lies outside the rendered image's rectangle leaves the selected line's
\* labelPosition, and the whole committed collection, unchanged.
C3_DragOutsideChangesNothing ==
    [][\A c \in Pointers :
         (/\ ~isPanning
          /\ interactionMode = "drag" /\ selectedLine # <<>> /\ isDraggingLabel
          /\ ~InsideImage(Screen(c))
          /\ MoveOf(c))
         => lines' = lines]_vars

\* C4: after any rotate-mode pointer move, whatever the pointer position
\* relative to the rotation center, the angle handed to onRotateLabel and
\* stored as labelRotation is a multiple of 5 with 0 <= angle < 360.
C4_RotationSnapped ==
    [][\A c \in Pointers :
         (/\ ~isPanning
          /\ interactionMode = "rotate" /\ rotationCenter # <<>>
          /\ MoveOf(c))
         => /\ labelRotation' % 5 = 0
            /\ 0 <= labelRotation' /\ labelRotation' < 360
            /\ \A k \in 1..Len(lines') :
                  lines'[k].labelRotation % 5 = 0
                  /\ 0 <= lines'[k].labelRotation
                  /\ lines'[k].labelRotation < 360]_vars

\* A rotate gesture has turned the label to an angle of the lower half
\* plane, where atan2 is negative and the angle is wrapped.
C4_Witness ==
    /\ interactionMode = "rotate"
    /\ rotationCenter # <<>>
    /\ labelRotation > 180
    /\ \E k \in 1..Len(lines) : lines[k].labelRotation = labelRotation

\* C5: after any pointer-up or pointer-leave (handleMouseUp, handleTouchEnd),
\* whatever pointer-down and move events preceded it, interactionMode is
\* draw, isPanning and isDraggingLabel are false and rotationCenter is null.
C5_ReleaseResetsGesture ==
    [][(handleMouseUp \/ handleTouchEnd) =>
         /\ interactionMode' = "draw"
         /\ isPanning' = FALSE
         /\ isDraggingLabel' = FALSE
         /\ rotationCenter' = <<>>]_vars

\* C6: after any pointer-up or pointer-leave no in-progress line remains
\* (currentLine is null and isDrawing is false), whatever pointer-down and
\* move events preceded it, so that no later move without a new
\* pointer-down appends a point to a line.
C6_ReleaseEndsLine ==
    [][(handleMouseUp \/ handleTouchEnd) =>
         /\ currentLine' = <<>>
         /\ isDrawing' = FALSE]_vars

\* The screen point cc is on empty space: on no line's label, on no line's
\* rotation handle and within no stroke's threshold.
OnEmptySpace(cc) ==
    \A k \in 1..Len(lines) :
       /\ ~isPointNearLabel(cc, lines[k])
       /\ ~isPointNearRotationControl(cc, lines[k])
       /\ ~LineHit(getImageCoordinates(cc), lines[k])

\* The in-progress line after the step holds exactly the image-space
\* conversion of the screen point cc.
StartsLineAt(cc) ==
    /\ isDrawing'
    /\ currentLine' # <<>>
    /\ Len(currentLine'[1].points) = 1
    /\ ImageX + currentLine'[1].points[1].x * UnitScale = cc.x
    /\ ImageY + currentLine'[1].points[1].y * UnitScale = cc.y

C8_HandlePressEntersRotate ==
    [][\A c \in Pointers :
         (/\ selectedLine # <<>>
          /\ selectedLine[1].label # ""
          /\ isPointNearRotationControl(Screen(c), selectedLine[1])
          /\ PressOf(c))
         => /\ interactionMode' = "rotate"
            /\ rotationCenter' = <<LabelAnchor(selectedLine[1])>>]_vars

\* C9: a pointer-down without pan trigger on the label body of the selected
\* line, and not on its rotation handle, always enters drag mode and leaves
\* the selection unchanged, even where another line's label covers the
\* same screen point.
C9_LabelPressEntersDrag ==
    [][\A c \in Pointers :
         (/\ selectedLine # <<>>
          /\ isPointNearLabel(Screen(c), selectedLine[1])
          /\ ~isPointNearRotationControl(Screen(c), selectedLine[1])
          /\ PressOf(c))
         => /\ interactionMode' = "drag"
            /\ isDraggingLabel'
            /\ selectedLine' = selectedLine]_vars

\* The points, label position and label rotation of every line: the
\* committed ones and the in-progress one.
LineGeometry(ls, cl) ==
    <<[k \in 1..Len(ls) |->
         <<ls[k].points, ls[k].labelPosition, ls[k].labelRotation>>],
      [k \in 1..Len(cl) |->
         <<cl[k].points, cl[k].labelPosition, cl[k].labelRotation>>]>>

\* C10: a pointer-down that changes the selection (a label hit on a line
\* other than the selected one, or a stroke hit on any line) does not enter
\* drag or rotate mode and starts no in-progress line; until the next
\* pointer-up, the moves of that gesture change no line's points,
\* labelPosition or labelRotation.
C10_SelectingGestureEditsNothing ==
    [][/\ (pressed' = "select" /\ \E c \in Pointers : PressOf(c))
          => /\ interactionMode' \notin {"drag", "rotate"}
             /\ currentLine' = currentLine
             /\ isDrawing' = isDrawing
       /\ (pressed = "select" /\ \E c \in Pointers : MoveOf(c))
          => LineGeometry(lines', currentLine') = LineGeometry(lines, currentLine)]_vars

\* C11: a wheel event changes zoomLevel by one notch of 0.1, up for zoom-in
\* and down for zoom-out, clamped to [0.5, 3.0].
C11_WheelChangesZoom ==
    [][\A c \in Pointers, deltaY \in {-1, 1} :
         handleWheel(c, deltaY)
         => zoomLevel' = IF deltaY > 0
                         THEN Max(5, zoomLevel - 1)
                         ELSE Min(30, zoomLevel + 1)]_vars

\* C12: in every reachable state 0.5 <= zoomLevel <= 3.0, after any
\* sequence of zoom-in, zoom-out, reset-zoom, wheel and image-reset
\* operations.
C12_ZoomInRange == 5 <= zoomLevel /\ zoomLevel <= 30

\* The zoom stands at its upper limit while the wheel has moved the image.
C12_Witness == zoomLevel = 30 /\ panOffset # Pt(0, 0)

\* C13: for a wheel event at the screen position c, the image-space point
\* shown under c after the event is the one shown under c before it; in
\* particular panOffset does not change when zoomLevel does not.
C13_WheelKeepsPointUnderCursor ==
    [][\A c \in Pointers, deltaY \in {-1, 1} :
         handleWheel(c, deltaY)
         => /\ (Screen(c).x - ImageX) * UnitScale' = (Screen(c).x - ImageX') * UnitScale
            /\ (Screen(c).y - ImageY) * UnitScale' = (Screen(c).y - ImageY') * UnitScale
            /\ (zoomLevel' = zoomLevel => panOffset' = panOffset)]_vars

\* C14: whenever the background image is replaced (an upload completes) or
\* reset to the default, afterwards panOffset = (0,0) and zoomLevel = 1.0.
C14_ImageChangeResetsView ==
    [][(ReaderDone \/ handleResetToDefaultImage)
         => panOffset' = Pt(0, 0) /\ zoomLevel' = 10]_vars

\* C20: after DrawingCanvas mounts with a background image, and after every
\* later change of the background image, the loading state eventually
\* ends: imageLoaded becomes true and the canvas is shown.
C20_LoadingEnds == (~isLoading) ~> imageLoaded

\* C15: in draw mode with an in-progress line, a pointer move (mouse or
\* touch) whose screen position lies outside the rendered image's
\* rectangle leaves the in-progress line's point sequence unchanged.
C15_DrawOutsideAddsNothing ==
    [][\A c \in Pointers :
         (/\ ~isPanning
          /\ interactionMode = "draw" /\ isDrawing /\ currentLine # <<>>
          /\ ~InsideImage(Screen(c))
          /\ MoveOf(c))
         => /\ currentLine' # <<>>
            /\ currentLine'[1].points = currentLine[1].points]_vars

\* C16: in every reachable state no line is both in progress and selected:
\* whenever currentLine is non-null, selectedLine is null or has another id,
\* and the in-progress line is not in the committed collection.
C16_InProgressNotSelected ==
    currentLine # <<>> =>
        /\ selectedLine = <<>> \/ selectedLine[1].id # currentLine[1].id
        /\ \A k \in 1..Len(lines) : lines[k].id # currentLine[1].id

\* The panel shows the values of the line ln.
PanelShows(ln) ==
    /\ color' = ln.color
    /\ opacity' = TimesHundred(ln.opacity)
    /\ label' = ln.label
    /\ labelRotation' = ln.labelRotation
    /\ thickness' = ln.thickness

\* C17: right after a press selects a line L, the panel's colour, opacity,
\* label, label rotation and thickness are L's own (the opacity being
\* L.opacity * 100), L is one of the committed lines, and the committed
\* lines are as before.
C17_SelectSeedsPanel ==
    [][(pressed' = "select" /\ \E c \in Pointers : PressOf(c))
         => /\ selectedLine' # <<>>
            /\ \E k \in 1..Len(lines) : lines[k] = selectedLine'[1]
            /\ PanelShows(selectedLine'[1])
            /\ lines' = lines]_vars

\* A line drawn in blue at opacity 7 and labelled "A" has just been
\* selected while the colour picker was on red.
C17_Witness ==
    /\ pressed = "select"
    /\ selectedLine # <<>>
    /\ selectedLine[1].color = "#0000FF"
    /\ selectedLine[1].opacity = 7
    /\ selectedLine[1].label = "A"
    /\ color = "#0000FF"
    /\ opacity = TimesHundred(7)

\* A change of one edit-panel field: colour, opacity, thickness, label
\* text, or the label rotation by the panel's slider or its reset button.
PanelFieldChange ==
    \/ PickColor
    \/ SlideOpacity
    \/ PickThickness
    \/ TypeLabel
    \/ SlideRotation
    \/ RotationReset

\* C18: while a line is selected, changing an edit-panel field leaves every
\* committed line as it was.
C18_PanelEditKeepsLines ==
    [][(selectedLine # <<>> /\ PanelFieldChange) => lines' = lines]_vars

\* newAngle of a rotate-mode move to the pointer position c.
MoveAngle(c) ==
    SnapRotation(Screen(c).y - rotationCenter[1].y,
                 Screen(c).x - rotationCenter[1].x)

\* C19: after every rotate-mode pointer move the panel's labelRotation is
\* the snapped angle of the move, a committed line carries the selected
\* line's id and its labelRotation is that angle too, and every other
\* committed line is unchanged.
C19_RotationLive ==
    [][\A c \in Pointers :
         (/\ ~isPanning
          /\ interactionMode = "rotate" /\ rotationCenter # <<>>
          /\ selectedLine # <<>>
          /\ MoveOf(c))
         => /\ labelRotation' = MoveAngle(c)
            /\ \E k \in 1..Len(lines) : lines[k].id = selectedLine[1].id
            /\ Len(lines') = Len(lines)
            /\ \A k \in 1..Len(lines) :
                  lines'[k] = IF lines[k].id = selectedLine[1].id
                              THEN [lines[k] EXCEPT !.labelRotation = MoveAngle(c)]
                              ELSE lines[k]]_vars

\* C21: whenever the canvas is drawn, whatever the Image that drawCanvas
\* constructs reports as its size, the origin and the scale drawCanvas
\* places the background and the lines with are the origin and the scale
\* of getImageCoordinates, isPointNearLabel and isPointNearRotationControl.
C21_RendererMatchesHitTest ==
    imageLoaded =>
        \A img \in FreshImageSizes :
            /\ DrawX(img) = ImageX
            /\ DrawY(img) = ImageY
            /\ DrawScale = UnitScale

\* 2^-20, far above the rounding error of the four operations of a
\* conversion and far below the distance between two image points.
Tolerance == RoundTo(1, <<1>>, -20)

\* The double x is within Tolerance of the whole number n.
DblNear(x, n) == DblLe(DblAbs(DblSub(x, Dbl(n))), Tolerance)

\* C22: for every viewport and every point p inside the image, p taken to
\* the screen (imageX + p.x * effectiveScale, imageY + p.y * effectiveScale)
\* and back by getImageCoordinates is p again, to within rounding: a press on
\* the screen position of p starts a line at p.
C22_RoundTrip ==
    [][\A p \in ImagePoints :
          PressOnImagePoint(p) =>
              /\ DblNear(currentLine'[1].points[1].x, p.x)
              /\ DblNear(currentLine'[1].points[1].y, p.y)]_vars

\* Some point of the segment from a to b is nearer than the hit threshold
\* thickness * 2 / (scale * zoomLevel) to q.  The nearest point of a segment
\* of squared length n > 0 to a point of the grid is a + (k / n) * (b - a)
\* for a whole k in 0..n, and the squared distance of that point to q is
\* ((q - a)^2 * n - 2 * k * dot + k^2) / n.
WithinThreshold(q, a, b, t) ==
    LET n == (b.x - a.x) * (b.x - a.x) + (b.y - a.y) * (b.y - a.y)
        dot == (q.x - a.x) * (b.x - a.x) + (q.y - a.y) * (b.y - a.y)
        qa == (q.x - a.x) * (q.x - a.x) + (q.y - a.y) * (q.y - a.y)
        es == scale * zoomLevel
    IN  IF n = 0
        THEN qa * es * es < (t * 2 * 10) * (t * 2 * 10)
        ELSE \E k \in 0..n :
                (qa * n - 2 * k * dot + k * k) * es * es
                    < (t * 2 * 10) * (t * 2 * 10) * n

\* C23: a press on a point of the image selects the committed line exactly
\* when some pair of consecutive points of the line has a point of its
\* segment at image-space distance strictly below
\* thickness * 2 / (scale * zoomLevel) from the pressed point.
C23_HitThreshold ==
    [][\A q \in QueryPoints :
          ProbeStroke(q) =>
              ((selectedLine' = <<lines[1]>>)
               <=> \E i \in 1..(Len(lines[1].points) - 1) :
                      WithinThreshold(q, lines[1].points[i],
                                      lines[1].points[i + 1],
                                      lines[1].thickness))]_vars

\* A thin line at effective scale 1 (threshold 2) selected by a press one
\* image unit off its stroke.
C23_Witness ==
    /\ selectedLine # <<>>
    /\ pressed = "select"
    /\ selectedLine[1].thickness = 1
    /\ scale * zoomLevel = 10
    /\ selectedLine[1].points = <<Pt(16, 14), Pt(24, 14)>>

\* panOffset less the last pan point: what a pan move leaves as it is.
PanAnchor ==
    Pt(panOffset.x - lastPanPoint.x * SUB, panOffset.y - lastPanPoint.y * SUB)

\* C24: a pan gesture (press with the pan trigger at s0, moves through
\* s1..sn, release) adds sn - s0 to panOffset, without a limit, and leaves
\* zoomLevel, the committed lines and the selection as they were.  Step by
\* step: the press keeps panOffset and makes s0 the last pan point, a move
\* while panning keeps panOffset less the last pan point, which becomes the
\* pointer's position, and the release keeps panOffset.  The mode is pan
\* from the press to the release unless another button is pressed between.
C24_PanGesture ==
    [][\A c \in Pointers :
          /\ (handleMouseDown(c, 1, FALSE) \/ handleMouseDown(c, 0, TRUE)) =>
                 /\ panOffset' = panOffset
                 /\ lastPanPoint' = c
                 /\ isPanning'
                 /\ <<zoomLevel, lines, selectedLine>>' = <<zoomLevel, lines, selectedLine>>
          /\ (isPanning /\ interactionMode = "pan" /\ handleMouseMove(c)) =>
                 /\ PanAnchor' = PanAnchor
                 /\ lastPanPoint' = c
                 /\ isPanning'
                 /\ <<zoomLevel, lines, selectedLine>>' = <<zoomLevel, lines, selectedLine>>
          /\ (isPanning /\ interactionMode = "pan" /\ handleMouseUp) =>
                 /\ panOffset' = panOffset
                 /\ ~isPanning'
                 /\ <<zoomLevel, lines, selectedLine>>' = <<zoomLevel, lines, selectedLine>>]_vars

\* After a gesture that moved the image, with a line committed and selected.
C24_Witness ==
    /\ ~isPanning
    /\ pressed = "none"
    /\ panOffset.x > 0
    /\ panOffset.y < 0
    /\ lines # <<>>
    /\ selectedLine # <<>>

\* C25: every pointer move, whatever the interaction mode, sets the hovered
\* label to the id of the first line whose label or rotation handle is under
\* the pointer, or to none when there is no such line.
C25_MoveUpdatesHover ==
    [][\A c \in Pointers :
          (handleMouseMove(c) \/ handleTouchMove(c, 1) \/ handleTouchMove(c, 2)) =>
              hoveredLabel' = HoverAt(Screen(c))]_vars


\* The steps that take whole lines out of the committed collection.
Removal ==
    \/ handleDeleteLine
    \/ handleUndo
    \/ handleClearAll
    \/ handleResetToDefaultImage

\* Every committed line is still at its index with its id and its points.
LinesKept ==
    /\ Len(lines') >= Len(lines)
    /\ \A k \in 1..Len(lines) :
          /\ lines'[k].id = lines[k].id
          /\ lines'[k].points = lines[k].points

\* Every line left was committed before, with the same id and points.
LinesAmongOld ==
    \A k \in 1..Len(lines') :
       \E j \in 1..Len(lines) :
          /\ lines'[k].id = lines[j].id
          /\ lines'[k].points = lines[j].points

\* C26: a committed line keeps its id and its point sequence through every
\* step (select, update, rotate, label drag, pan, zoom, drawing other
\* lines); its points go away only when delete, undo, clear all or the reset
\* to the default image removes the whole line, and these steps leave the
\* remaining lines as they were.
C26_PointsImmutable ==
    [][LinesKept \/ (Removal /\ LinesAmongOld)]_vars

\* Two lines are committed; the second carries a rotated label that was
\* dragged to a position of its own and the view is zoomed in.
C26_Witness ==
    /\ Len(lines) = 2
    /\ lines[2].labelPosition # <<>>
    /\ lines[2].labelRotation # 0
    /\ lines[2].label # ""
    /\ lines[1].id # lines[2].id
    /\ zoomLevel > DefaultZoom

\* C27: the committed lines have pairwise distinct ids, whatever the order
\* and the timing of the draw gestures.
C27_DistinctIds ==
    \A i, j \in 1..Len(lines) : i # j => lines[i].id # lines[j].id

\* C28: the gesture flags agree with the interaction mode: isPanning only
\* in pan mode, isDraggingLabel only in drag mode, rotationCenter set only
\* in rotate mode.
C28_FlagsAgreeWithMode ==
    /\ isPanning => interactionMode = "pan"
    /\ isDraggingLabel => interactionMode = "drag"
    /\ rotationCenter # <<>> => interactionMode = "rotate"

\* C29: whenever a line is selected, a line with its id is in the committed
\* collection.
C29_SelectionIsCommitted ==
    selectedLine # <<>> =>
        \E k \in 1..Len(lines) : lines[k].id = selectedLine[1].id

\* C30: the selected line has the label, the label position and the label
\* rotation of the committed line with its id, also after rotate and
\* label-drag moves.
C30_SelectionMatchesCommitted ==
    selectedLine # <<>> =>
        \A k \in 1..Len(lines) :
           lines[k].id = selectedLine[1].id =>
              /\ lines[k].label = selectedLine[1].label
              /\ lines[k].labelPosition = selectedLine[1].labelPosition
              /\ lines[k].labelRotation = selectedLine[1].labelRotation

\* C31: a press without the pan trigger and without a label under it, at a
\* screen position outside the rendered image, changes neither the
\* selection nor the committed lines and starts no line.
C31_PressOutsideIsNoOp ==
    [][\A c \in Pointers :
          (/\ ~InsideImage(Screen(c))
           /\ FirstLabelAt(Screen(c)) = <<>>
           /\ (handleMouseDown(c, 0, FALSE) \/ handleTouchStart(c, 1)))
          => UNCHANGED <<selectedLine, lines, currentLine>>]_vars

\* The geometry is the one fitted from the image img in the container.
Fitted(img) ==
    /\ scale = FitScale(img, ContainerSize)
    /\ imageSize = FitSize(img, ContainerSize)

\* The decode of the background image has completed: its geometry is in
\* place and neither the effect nor an Image of it is outstanding.
BackgroundDecoded ==
    /\ backgroundImage # <<>>
    /\ ~effectPending
    /\ imageLoaded
    /\ Fitted(backgroundImage[1])
    /\ \A e \in decoding : e.src # backgroundImage[1]

\* C32: after the background image was replaced and the new image's decode
\* has completed, the completion of a decode of an earlier image leaves the
\* base scale and the image size those fitted from the new image.
C32_LateDecodeKeepsGeometry ==
    [][\A d \in Images :
          (/\ BackgroundDecoded
           /\ d.src # backgroundImage[1]
           /\ (effectOnload(d) \/ resizeOnload(d)))
          => Fitted(backgroundImage[1])']_vars

\* C33: handleUndo takes effect only on a collection that is not empty, and
\* then removes exactly its last entry: the entries before it stay, in
\* their order and unchanged.
C33_UndoDropsLast ==
    [][handleUndo =>
          /\ lines # <<>>
          /\ Len(lines') = Len(lines) - 1
          /\ \A k \in 1..Len(lines') : lines'[k] = lines[k]]_vars

\* One line is left and the selection still shows a later line, which
\* only an undo takes away without clearing the selection.
C33_Witness ==
    /\ Len(lines) = 1
    /\ selectedLine # <<>>
    /\ selectedLine[1].id > lines[1].id

\* The panel holds what handleSelectLine put there for the selected line.
PanelAsSelected ==
    /\ selectedLine # <<>>
    /\ color = selectedLine[1].color
    /\ opacity = TimesHundred(selectedLine[1].opacity)
    /\ label = selectedLine[1].label
    /\ labelRotation = selectedLine[1].labelRotation
    /\ thickness = selectedLine[1].thickness

\* C34: an update of a selected line whose panel values are still those the
\* selection put there leaves the committed lines as they are and clears
\* the selection.
C34_UpdateWithoutEdit ==
    [][(PanelAsSelected /\ handleUpdateSelectedLine)
         => /\ lines' = lines
            /\ selectedLine' = <<>>]_vars

\* e.touches.length of the touch events that arrive while two fingers are
\* down: the two fingers, or these and a third one.
PinchTouches == {2, 3}

\* The scene and the view as a two-finger touch has to leave them.
PinchKeeps ==
    UNCHANGED <<lines, currentLine, isDrawing, selectedLine, zoomLevel,
                panOffset>>

\* C35: between a touchstart that carries two touches and the next
\* touchend, touch events append no point, start no line, change no
\* selection, move or rotate no label and leave panOffset and zoomLevel.
C35_PinchIsInert ==
    [][\A c \in Pointers, n \in PinchTouches :
          (/\ pressed = "pinch"
           /\ (handleTouchStart(c, n) \/ handleTouchMove(c, n)))
          => PinchKeeps]_vars

\* The fraction d is the square of the distance from q to the point of the
\* segment from a to b at the parameter dot / n clamped to 0..1; for a = b
\* it is the square of the distance from q to a.  The point at the
\* parameter k / n lies at the squared distance
\* (|q - a|^2 * n - 2 * k * dot + k * k) / n.
ClampedProjection(d, q, a, b) ==
    LET n == (b.x - a.x) * (b.x - a.x) + (b.y - a.y) * (b.y - a.y)
        dot == (q.x - a.x) * (b.x - a.x) + (q.y - a.y) * (b.y - a.y)
        qa == (q.x - a.x) * (q.x - a.x) + (q.y - a.y) * (q.y - a.y)
        k == Max(0, Min(n, dot))
    IN  /\ d[2] > 0
        /\ IF n = 0
           THEN d[1] = qa * d[2]
           ELSE d[1] * n = (qa * n - 2 * k * dot + k * k) * d[2]

\* C36: distanceToLineSegment has a value for every point and segment,
\* without a division by zero: the distance to lineStart for a segment with
\* lineStart = lineEnd, and otherwise the distance to the projection of
\* the point clamped to the segment.
C36_DistanceIsTotal ==
    [][\A q \in QueryPoints :
          ProbeStroke(q) =>
              \A i \in 1..(Len(lines[1].points) - 1) :
                 ClampedProjection(
                     distanceToLineSegment(q, lines[1].points[i],
                                           lines[1].points[i + 1]),
                     q, lines[1].points[i], lines[1].points[i + 1])]_vars

\* A stroke of two equal points selected by a press near that point.
C36_Witness ==
    /\ pressed = "select"
    /\ selectedLine # <<>>
    /\ selectedLine[1].points = <<Pt(20, 14), Pt(20, 14)>>
=============================================================================
